---- MODULE Spec2Model ----
(***************************************************************************)
(* Model of the file operations of AdvancedFileManager (file-explorer.py): *)
(* the clipboard marks (action_copy, action_cut), action_paste with its    *)
(* collision-suffix loop, action_delete, action_rename and                 *)
(* action_new_folder, over a small filesystem.                             *)
(*                                                                         *)
(* A file name is a sequence of tokens: one-character strings and the      *)
(* "_copy<n>" infixes the paste loop generates.  A path is a sequence of   *)
(* names, <<>> being the root directory.  The filesystem is a function     *)
(* from the existing paths to "dir" or to the content of a file.           *)
(* Clipboard URLs are modelled by their paths: QUrl.fromLocalFile and      *)
(* toLocalFile give back the absolute path they were made from.            *)
(***************************************************************************)
EXTENDS Integers, Sequences, FiniteSets, TLC

VARIABLES
    fs,                \* the filesystem: existing path -> "dir" | content
    cwd,               \* the path of the table's root index
    is_cut_operation,  \* self.is_cut_operation
    cut_paths,         \* self.cut_paths
    clipboard,         \* URLs held by the OS clipboard (<<>>: no URLs)
    clip_owner,        \* who set the OS clipboard last: "none", "self", "foreign"
    pending_delete,    \* paths of the open delete confirmation (<<>>: none)
    mark,              \* the selection and mode of the most recent mark
    steps,             \* steps other than navigation taken so far
    last               \* what the most recent step other than navigation did

vars == <<fs, cwd, is_cut_operation, cut_paths, clipboard, clip_owner,
          pending_delete, mark, steps, last>>

----------------------------------------------------------------------------
(* Bounds *)

MaxSel == 2        \* longest selection / clipboard URL list
MaxSteps == 3      \* steps other than navigation in one run
MaxDepth == 1      \* deepest directory level the user navigates to

----------------------------------------------------------------------------
(* Paths: os.path *)

Root == <<>>

basename(p) == p[Len(p)]

dirname(p) == SubSeq(p, 1, Len(p) - 1)

join(dir, name) == Append(dir, name)

\* a is b or an ancestor of b
IsPrefix(a, b) == Len(a) <= Len(b) /\ SubSeq(b, 1, Len(a)) = a

exists(f, p) == p \in DOMAIN f

isdir(f, p) == p \in DOMAIN f /\ f[p] = "dir"

\* index of the last "." of a name, 0 if there is none
RECURSIVE rfindDot(_, _)
rfindDot(name, i) ==
    IF i = 0 THEN 0
    ELSE IF name[i] = "." THEN i
    ELSE rfindDot(name, i - 1)

\* os.path.splitext: the extension starts at the last dot, unless only dots
\* precede it
splitext(name) ==
    LET dot == rfindDot(name, Len(name))
        lead == \A k \in 1..(dot - 1) : name[k] = "."
    IN  IF dot = 0 \/ lead
        THEN <<name, <<>>>>
        ELSE <<SubSeq(name, 1, dot - 1), SubSeq(name, dot, Len(name))>>

\* the text of "_copy{counter}"
CopyTok(n) == "_copy" \o ToString(n)

\* the suffix put after the extension
copyname_after_ext(base, ext, counter) == base \o ext \o <<CopyTok(counter)>>

\* f"{base}_copy{counter}{ext}"
copyname(base, ext, counter) == base \o <<CopyTok(counter)>> \o ext

----------------------------------------------------------------------------
(* Filesystem primitives: each yields [ok, fs] *)

Fail(f) == [ok |-> FALSE, fs |-> f]

Done(f) == [ok |-> TRUE, fs |-> f]

\* every strict ancestor of p is a directory or can be created
CanMakedirs(f, p) ==
    \A k \in 0..(Len(p) - 1) :
        LET a == SubSeq(p, 1, k) IN exists(f, a) => isdir(f, a)

\* the strict ancestors of p that do not exist yet
MissingParents(f, p) ==
    {SubSeq(p, 1, k) : k \in 0..(Len(p) - 1)} \ DOMAIN f

\* the entries strictly below src, re-rooted at dst
Rebased(f, src, dst) ==
    {dst \o SubSeq(q, Len(src) + 1, Len(q)) :
        q \in {r \in DOMAIN f : IsPrefix(src, r)}}

\* the source entry a rebased path was made from
Origin(src, dst, q) == src \o SubSeq(q, Len(dst) + 1, Len(q))

\* shutil.copy2(src, dst)
copy2(f, src, dst) ==
    LET real_dst == IF isdir(f, dst) THEN join(dst, basename(src)) ELSE dst
    IN  IF ~exists(f, src) \/ isdir(f, src) THEN Fail(f)
        ELSE IF real_dst = src THEN Fail(f)
        ELSE IF ~isdir(f, dirname(real_dst)) \/ isdir(f, real_dst) THEN Fail(f)
        ELSE Done([q \in DOMAIN f \cup {real_dst} |->
                     IF q = real_dst THEN f[src] ELSE f[q]])

\* shutil.copytree(src, dst)
copytree(f, src, dst) ==
    IF ~isdir(f, src) \/ exists(f, dst) \/ ~CanMakedirs(f, dst) THEN Fail(f)
    ELSE LET made == MissingParents(f, dst)
             new == Rebased(f, src, dst)
         IN  Done([q \in DOMAIN f \cup made \cup new |->
                     IF q \in new THEN f[Origin(src, dst, q)]
                     ELSE IF q \in made THEN "dir"
                     ELSE f[q]])

\* shutil.rmtree(path)
rmtree(f, path) ==
    IF ~isdir(f, path) THEN Fail(f)
    ELSE Done([q \in {r \in DOMAIN f : ~IsPrefix(path, r)} |-> f[q]])

\* os.remove(path)
remove(f, path) ==
    IF ~exists(f, path) \/ isdir(f, path) THEN Fail(f)
    ELSE Done([q \in DOMAIN f \ {path} |-> f[q]])

\* os.rename(src, dst)
rename(f, src, dst) ==
    IF ~exists(f, src) \/ ~isdir(f, dirname(dst)) THEN Fail(f)
    ELSE IF isdir(f, src) /\ IsPrefix(src, dst) /\ src # dst THEN Fail(f)
    ELSE IF exists(f, dst) /\ (isdir(f, src) \/ isdir(f, dst)) /\ src # dst
         THEN Fail(f)
    ELSE LET new == Rebased(f, src, dst)
             kept == {r \in DOMAIN f : ~IsPrefix(src, r)}
         IN  Done([q \in kept \cup new |->
                     IF q \in new THEN f[Origin(src, dst, q)] ELSE f[q]])

\* shutil.move(src, dst)
move(f, src, dst) ==
    LET into == isdir(f, dst)
        real_dst == IF into THEN join(dst, basename(src)) ELSE dst
        renamed == rename(f, src, real_dst)
    IN  IF into /\ exists(f, real_dst) THEN Fail(f)
        ELSE IF renamed.ok THEN renamed
        ELSE IF isdir(f, src)
             THEN IF IsPrefix(src, real_dst) THEN Fail(f)
                  ELSE LET copied == copytree(f, src, real_dst)
                       IN  IF copied.ok THEN rmtree(copied.fs, src)
                           ELSE Fail(f)
        ELSE LET copied == copy2(f, src, real_dst)
             IN  IF copied.ok THEN remove(copied.fs, src) ELSE Fail(f)

\* os.makedirs(path): the missing ancestors are created too
makedirs(f, path) ==
    IF exists(f, path) \/ ~CanMakedirs(f, path) THEN Fail(f)
    ELSE LET made == MissingParents(f, path) \cup {path}
         IN  Done([q \in DOMAIN f \cup made |->
                     IF q \in made THEN "dir" ELSE f[q]])

----------------------------------------------------------------------------
(* action_paste *)

\* what a path holds: "dir", the content of a file, or "none"
ValueOf(f, p) == IF exists(f, p) THEN f[p] ELSE "none"

InSeq(x, s) == \E k \in 1..Len(s) : s[k] = x

\* the collision logic without the loop: "_copy1" whether or not it is free
probe_once(f, dest_dir, base, ext, counter) ==
    join(dest_dir, copyname(base, ext, counter))

\* the while loop of the collision logic: the first free "_copy{counter}" name
RECURSIVE probe(_, _, _, _, _)
probe(f, dest_dir, base, ext, counter) ==
    LET dest_path == join(dest_dir, copyname(base, ext, counter))
    IN  IF exists(f, dest_path)
        THEN probe(f, dest_dir, base, ext, counter + 1)
        ELSE dest_path

\* the collision logic with the counter started at 2
resolve_from_two(f, dest_dir, file_name) ==
    LET dest_path == join(dest_dir, file_name)
        parts == splitext(file_name)
    IN  IF exists(f, dest_path)
        THEN probe(f, dest_dir, parts[1], parts[2], 2)
        ELSE dest_path

\* the destination path chosen for file_name in dest_dir
resolve(f, dest_dir, file_name) ==
    LET dest_path == join(dest_dir, file_name)
        parts == splitext(file_name)
    IN  IF exists(f, dest_path)
        THEN probe(f, dest_dir, parts[1], parts[2], 1)
        ELSE dest_path

\* a source is moved only if the internal flag is set and its path was cut
IsMove(cut, cutset, src_path) == cut /\ InSeq(src_path, cutset)

\* the move of one source without the removal of the source
Transfer_keeps_source(f, is_move, src_path, dest_path) ==
    IF isdir(f, src_path) THEN copytree(f, src_path, dest_path)
    ELSE copy2(f, src_path, dest_path)

\* the copy or move of one source
Transfer(f, is_move, src_path, dest_path) ==
    IF is_move THEN move(f, src_path, dest_path)
    ELSE IF isdir(f, src_path) THEN copytree(f, src_path, dest_path)
    ELSE copy2(f, src_path, dest_path)

\* the loop with the cut flag reset inside it, after the first move
RECURSIVE PasteLoop_reset_inside(_, _, _, _, _, _, _)
PasteLoop_reset_inside(urls, i, dest_dir, f, cut, cutset, items) ==
    IF i > Len(urls) THEN [fs |-> f, items |-> items, err |-> FALSE]
    ELSE LET src_path == urls[i]
             dest_path == resolve(f, dest_dir, basename(src_path))
             is_move == IsMove(cut, cutset, src_path)
             r == Transfer(f, is_move, src_path, dest_path)
             item == [src |-> src_path, dest |-> dest_path,
                      move |-> is_move, ok |-> r.ok, before |-> f]
         IN  IF r.ok
             THEN PasteLoop_reset_inside(urls, i + 1, dest_dir, r.fs,
                                         cut /\ ~is_move, cutset,
                                         Append(items, item))
             ELSE [fs |-> r.fs, items |-> Append(items, item), err |-> TRUE]

\* the for loop inside the try block, from url i on: the first failing item
\* raises and ends the loop
RECURSIVE PasteLoop(_, _, _, _, _, _, _)
PasteLoop(urls, i, dest_dir, f, cut, cutset, items) ==
    IF i > Len(urls) THEN [fs |-> f, items |-> items, err |-> FALSE]
    ELSE LET src_path == urls[i]
             dest_path == resolve(f, dest_dir, basename(src_path))
             is_move == IsMove(cut, cutset, src_path)
             r == Transfer(f, is_move, src_path, dest_path)
             item == [src |-> src_path, dest |-> dest_path,
                      move |-> is_move, ok |-> r.ok, before |-> f]
         IN  IF r.ok
             THEN PasteLoop(urls, i + 1, dest_dir, r.fs, cut, cutset,
                            Append(items, item))
             ELSE [fs |-> r.fs, items |-> Append(items, item), err |-> TRUE]

----------------------------------------------------------------------------
(* What a step did: the operation, its inputs (the paths given, the       *)
(* destination directory, the cut flag, the cut paths and the clipboard   *)
(* owner it started with), the items it attempted and whether it ended in *)
(* the except branch.  An item holds the source, the destination chosen,  *)
(* whether it was a move, whether it succeeded, and the filesystem as it  *)
(* was when the item was reached.                                         *)

Log(op, urls, dest, cut, cutset, owner, items, err) ==
    [op |-> op, urls |-> urls, dest |-> dest, cut |-> cut, cutset |-> cutset,
     owner |-> owner, items |-> items, err |-> err]

NoLog(op) == Log(op, <<>>, <<>>, FALSE, <<>>, "none", <<>>, FALSE)

\* what a step with an input dialog did: besides the fields above (dest is
\* the directory shown), whether the dialog was shown, the text it returned
\* and whether it was accepted with OK
EditLog(op, paths, dir, asked, text, accepted, items, err) ==
    [op |-> op, urls |-> paths, dest |-> dir, cut |-> FALSE, cutset |-> <<>>,
     owner |-> "none", items |-> items, err |-> err,
     asked |-> asked, text |-> text, accepted |-> accepted]

----------------------------------------------------------------------------
(* The initial filesystem *)

NameD == <<"d">>
NameAB == <<"a", ".", "b">>
NameACopyB == <<"a", "_copy1", ".", "b">>
NameCD == <<"c", ".", "d">>

\* /d and /c.d are directories; /d holds the files a.b and a_copy1.b, /c.d a
\* file a.b; the three files differ in content
InitFs ==
    (Root :> "dir") @@ (<<NameD>> :> "dir") @@ (<<NameCD>> :> "dir")
    @@ (<<NameD, NameAB>> :> "x") @@ (<<NameD, NameACopyB>> :> "y")
    @@ (<<NameCD, NameAB>> :> "z")

Init ==
    /\ fs = InitFs
    /\ cwd = <<NameD>>
    /\ is_cut_operation = FALSE
    /\ cut_paths = <<>>
    /\ clipboard = <<>>
    /\ clip_owner = "none"
    /\ pending_delete = <<>>
    /\ mark = [paths |-> <<>>, cut |-> FALSE]
    /\ steps = 0
    /\ last = NoLog("init")

----------------------------------------------------------------------------
(* Inputs *)

\* the rows of the table: the entries of the directory shown
Children(f, dir) == {p \in DOMAIN f : Len(p) = Len(dir) + 1 /\ IsPrefix(dir, p)}

\* sequences of 1..n elements of S
SeqsUpTo(S, n) == UNION {[1..k -> S] : k \in 1..n}

NoDup(s) == \A j, k \in 1..Len(s) : j # k => s[j] # s[k]

\* get_selected_paths: the selected rows, in selection order
Selections(f, dir) == {s \in SeqsUpTo(Children(f, dir), MaxSel) : NoDup(s)}

\* the paths other applications put on the clipboard
ForeignPaths == {<<NameD, NameAB>>, <<NameCD, NameAB>>}

\* the URL lists other applications put on the clipboard
ForeignUrls == {s \in SeqsUpTo(ForeignPaths, MaxSel) : NoDup(s)}

\* the texts the user types into an input dialog: nothing, the name of an
\* entry of the initial tree, or a name not in use
NameN == <<"n">>

TypedNames == {<<>>, NameD, NameAB, NameN}

\* the run has steps left
Running == steps < MaxSteps

\* the step counts
Step == steps' = steps + 1

----------------------------------------------------------------------------
(* Handlers *)

\* navigate_to_directory: any valid index of the model becomes the root
Navigate(p) ==
    /\ Running
    /\ pending_delete = <<>>
    /\ exists(fs, p)
    /\ Len(p) <= MaxDepth
    /\ p # cwd
    /\ cwd' = p
    /\ UNCHANGED <<last, fs, is_cut_operation, cut_paths, clipboard, clip_owner,
                   pending_delete, mark, steps>>

\* action_copy without the reset of the cut flag
action_copy_keeps_flag(paths) ==
    /\ Running
    /\ pending_delete = <<>>
    /\ IF paths = <<>>
       THEN UNCHANGED <<is_cut_operation, clipboard, clip_owner, mark>>
       ELSE /\ UNCHANGED is_cut_operation
            /\ clipboard' = paths
            /\ clip_owner' = "self"
            /\ mark' = [paths |-> paths, cut |-> FALSE]
    /\ last' = Log("copy", paths, <<>>, FALSE, <<>>, "none", <<>>, FALSE)
    /\ Step
    /\ UNCHANGED <<fs, cwd, cut_paths, pending_delete>>

\* action_copy without the early return on an empty selection
action_copy_no_guard(paths) ==
    /\ Running
    /\ pending_delete = <<>>
    /\ is_cut_operation' = FALSE
    /\ clipboard' = paths
    /\ clip_owner' = "self"
    /\ mark' = [paths |-> paths, cut |-> FALSE]
    /\ last' = Log("copy", paths, <<>>, FALSE, <<>>, "none", <<>>, FALSE)
    /\ Step
    /\ UNCHANGED <<fs, cwd, cut_paths, pending_delete>>

action_copy(paths) ==
    /\ Running
    /\ pending_delete = <<>>
    /\ IF paths = <<>>
       THEN UNCHANGED <<is_cut_operation, clipboard, clip_owner, mark>>
       ELSE /\ is_cut_operation' = FALSE
            /\ clipboard' = paths
            /\ clip_owner' = "self"
            /\ mark' = [paths |-> paths, cut |-> FALSE]
    /\ last' = Log("copy", paths, <<>>, FALSE, <<>>, "none", <<>>, FALSE)
    /\ Step
    /\ UNCHANGED <<fs, cwd, cut_paths, pending_delete>>

action_cut(paths) ==
    /\ Running
    /\ pending_delete = <<>>
    /\ IF paths = <<>>
       THEN UNCHANGED <<is_cut_operation, cut_paths, clipboard, clip_owner,
                        mark>>
       ELSE /\ is_cut_operation' = TRUE
            /\ cut_paths' = paths
            /\ clipboard' = paths
            /\ clip_owner' = "self"
            /\ mark' = [paths |-> paths, cut |-> TRUE]
    /\ last' = Log("cut", paths, <<>>, FALSE, <<>>, "none", <<>>, FALSE)
    /\ Step
    /\ UNCHANGED <<fs, cwd, pending_delete>>

\* action_paste with the reset after the loop done only if an item was moved
action_paste_reset_if_moved ==
    /\ pending_delete = <<>>
    /\ Running
    /\ Step
    /\ IF clipboard = <<>>
       THEN /\ last' = NoLog("paste")
            /\ UNCHANGED <<fs, is_cut_operation, cut_paths, clipboard,
                           clip_owner>>
       ELSE LET r == PasteLoop(clipboard, 1, cwd, fs, is_cut_operation,
                               cut_paths, <<>>)
            IN  /\ fs' = r.fs
                /\ last' = Log("paste", clipboard, cwd, is_cut_operation,
                               cut_paths, clip_owner, r.items, r.err)
                /\ IF ~r.err /\ \E k \in 1..Len(r.items) : r.items[k].move
                   THEN /\ is_cut_operation' = FALSE
                        /\ cut_paths' = <<>>
                        /\ clipboard' = <<>>
                        /\ clip_owner' = "none"
                   ELSE UNCHANGED <<is_cut_operation, cut_paths, clipboard,
                                    clip_owner>>
    /\ UNCHANGED <<cwd, pending_delete, mark>>

\* action_paste with the reset after the loop done whatever the cut flag
action_paste_always_resets ==
    /\ pending_delete = <<>>
    /\ Running
    /\ Step
    /\ IF clipboard = <<>>
       THEN /\ last' = NoLog("paste")
            /\ UNCHANGED <<fs, is_cut_operation, cut_paths, clipboard,
                           clip_owner>>
       ELSE LET r == PasteLoop(clipboard, 1, cwd, fs, is_cut_operation,
                               cut_paths, <<>>)
            IN  /\ fs' = r.fs
                /\ last' = Log("paste", clipboard, cwd, is_cut_operation,
                               cut_paths, clip_owner, r.items, r.err)
                /\ IF ~r.err
                   THEN /\ is_cut_operation' = FALSE
                        /\ cut_paths' = <<>>
                        /\ clipboard' = <<>>
                        /\ clip_owner' = "none"
                   ELSE UNCHANGED <<is_cut_operation, cut_paths, clipboard,
                                    clip_owner>>
    /\ UNCHANGED <<cwd, pending_delete, mark>>

action_paste ==
    /\ pending_delete = <<>>
    /\ Running
    /\ Step
    /\ IF clipboard = <<>>
       THEN /\ last' = NoLog("paste")
            /\ UNCHANGED <<fs, is_cut_operation, cut_paths, clipboard,
                           clip_owner>>
       ELSE LET r == PasteLoop(clipboard, 1, cwd, fs, is_cut_operation,
                               cut_paths, <<>>)
            IN  /\ fs' = r.fs
                /\ last' = Log("paste", clipboard, cwd, is_cut_operation,
                               cut_paths, clip_owner, r.items, r.err)
                /\ IF ~r.err /\ is_cut_operation
                   THEN /\ is_cut_operation' = FALSE
                        /\ cut_paths' = <<>>
                        /\ clipboard' = <<>>
                        /\ clip_owner' = "none"
                   ELSE UNCHANGED <<is_cut_operation, cut_paths, clipboard,
                                    clip_owner>>
    /\ UNCHANGED <<cwd, pending_delete, mark>>

\* the loop of action_delete inside the try block, from path i on
RECURSIVE DeleteLoop(_, _, _, _)
DeleteLoop(paths, i, f, items) ==
    IF i > Len(paths) THEN [fs |-> f, items |-> items, err |-> FALSE]
    ELSE LET path == paths[i]
             r == IF isdir(f, path) THEN rmtree(f, path) ELSE remove(f, path)
             item == [src |-> path, dest |-> <<>>, move |-> FALSE,
                      ok |-> r.ok, before |-> f]
         IN  IF r.ok
             THEN DeleteLoop(paths, i + 1, r.fs, Append(items, item))
             ELSE [fs |-> r.fs, items |-> Append(items, item), err |-> TRUE]

\* action_delete up to the confirmation dialog
DeleteAsk(paths) ==
    /\ Running
    /\ pending_delete = <<>>
    /\ pending_delete' = paths
    /\ last' = Log("delete_ask", paths, <<>>, FALSE, <<>>, "none", <<>>, FALSE)
    /\ Step
    /\ UNCHANGED <<fs, cwd, is_cut_operation, cut_paths, clipboard, clip_owner,
                   mark>>

\* action_delete deleting whatever the answer of the dialog
DeleteReply_ignores_answer(yes) ==
    /\ Running
    /\ pending_delete # <<>>
    /\ pending_delete' = <<>>
    /\ LET r == DeleteLoop(pending_delete, 1, fs, <<>>)
       IN  /\ fs' = r.fs
           /\ last' = Log(IF yes THEN "delete" ELSE "delete_no",
                          pending_delete, <<>>, FALSE, <<>>, "none", r.items,
                          r.err)
    /\ Step
    /\ UNCHANGED <<cwd, is_cut_operation, cut_paths, clipboard, clip_owner,
                   mark>>

\* action_delete from the answer of the dialog on
DeleteReply(yes) ==
    /\ Running
    /\ pending_delete # <<>>
    /\ pending_delete' = <<>>
    /\ IF yes
       THEN LET r == DeleteLoop(pending_delete, 1, fs, <<>>)
            IN  /\ fs' = r.fs
                /\ last' = Log("delete", pending_delete, <<>>, FALSE, <<>>,
                               "none", r.items, r.err)
       ELSE /\ fs' = fs
            /\ last' = Log("delete_no", pending_delete, <<>>, FALSE, <<>>,
                           "none", <<>>, FALSE)
    /\ Step
    /\ UNCHANGED <<cwd, is_cut_operation, cut_paths, clipboard, clip_owner,
                   mark>>

\* action_rename: the rows selected; with one row selected, the text and
\* the button of the input dialog.  os.rename onto an existing file replaces
\* it (POSIX) or raises (Windows)
action_rename(paths) ==
    /\ Running
    /\ pending_delete = <<>>
    /\ Step
    /\ IF Len(paths) # 1
       THEN /\ fs' = fs
            /\ last' = EditLog("rename", paths, cwd, FALSE, <<>>, FALSE, <<>>,
                               FALSE)
       ELSE \E new_name \in TypedNames, ok \in BOOLEAN :
            LET old_path == paths[1]
                old_name == basename(old_path)
                new_path == join(dirname(old_path), new_name)
            IN  IF ok /\ new_name # <<>> /\ new_name # old_name
                THEN \E replaces \in IF exists(fs, new_path) THEN BOOLEAN
                                     ELSE {TRUE} :
                     LET r == IF exists(fs, new_path) /\ ~replaces
                              THEN Fail(fs)
                              ELSE rename(fs, old_path, new_path)
                         item == [src |-> old_path, dest |-> new_path,
                                  move |-> TRUE, ok |-> r.ok, before |-> fs]
                     IN  /\ fs' = r.fs
                         /\ last' = EditLog("rename", paths, cwd, TRUE,
                                            new_name, ok, <<item>>, ~r.ok)
                ELSE /\ fs' = fs
                     /\ last' = EditLog("rename", paths, cwd, TRUE, new_name,
                                        ok, <<>>, FALSE)
    /\ UNCHANGED <<cwd, is_cut_operation, cut_paths, clipboard, clip_owner,
                   pending_delete, mark>>

\* action_new_folder with collisions resolved as action_paste resolves them
action_new_folder_resolving(new_folder_name, ok) ==
    /\ Running
    /\ pending_delete = <<>>
    /\ Step
    /\ IF ok /\ new_folder_name # <<>>
       THEN LET target == resolve(fs, cwd, new_folder_name)
                r == makedirs(fs, target)
                item == [src |-> <<>>, dest |-> target, move |-> FALSE,
                         ok |-> r.ok, before |-> fs]
            IN  /\ fs' = r.fs
                /\ last' = EditLog("new_folder", <<>>, cwd, TRUE,
                                   new_folder_name, ok, <<item>>, ~r.ok)
       ELSE /\ fs' = fs
            /\ last' = EditLog("new_folder", <<>>, cwd, TRUE, new_folder_name,
                               ok, <<>>, FALSE)
    /\ UNCHANGED <<cwd, is_cut_operation, cut_paths, clipboard, clip_owner,
                   pending_delete, mark>>

\* action_new_folder: the text and the button of the input dialog
action_new_folder(new_folder_name, ok) ==
    /\ Running
    /\ pending_delete = <<>>
    /\ Step
    /\ IF ok /\ new_folder_name # <<>>
       THEN LET target == join(cwd, new_folder_name)
                r == makedirs(fs, target)
                item == [src |-> <<>>, dest |-> target, move |-> FALSE,
                         ok |-> r.ok, before |-> fs]
            IN  /\ fs' = r.fs
                /\ last' = EditLog("new_folder", <<>>, cwd, TRUE,
                                   new_folder_name, ok, <<item>>, ~r.ok)
       ELSE /\ fs' = fs
            /\ last' = EditLog("new_folder", <<>>, cwd, TRUE, new_folder_name,
                               ok, <<>>, FALSE)
    /\ UNCHANGED <<cwd, is_cut_operation, cut_paths, clipboard, clip_owner,
                   pending_delete, mark>>

----------------------------------------------------------------------------
(* The environment: other processes *)

\* another process removes an entry
ExternalDelete(p) ==
    /\ Running
    /\ Step
    /\ exists(fs, p)
    /\ p # Root
    /\ fs' = [q \in {r \in DOMAIN fs : ~IsPrefix(p, r)} |-> fs[q]]
    /\ last' = NoLog("external")
    /\ UNCHANGED <<cwd, is_cut_operation, cut_paths, clipboard, clip_owner,
                   pending_delete, mark>>

\* another application puts file URLs on the OS clipboard
ForeignSetClipboard(urls) ==
    /\ Running
    /\ Step
    /\ clipboard' = urls
    /\ clip_owner' = "foreign"
    /\ last' = NoLog("external")
    /\ UNCHANGED <<fs, cwd, is_cut_operation, cut_paths, pending_delete,
                   mark>>

----------------------------------------------------------------------------

Next ==
    \/ \E p \in DOMAIN fs : Navigate(p)
    \/ \E paths \in Selections(fs, cwd) \cup {<<>>} : action_copy(paths)
    \/ \E paths \in Selections(fs, cwd) \cup {<<>>} : action_cut(paths)
    \/ action_paste
    \/ \E p \in DOMAIN fs : ExternalDelete(p)
    \/ \E urls \in ForeignUrls : ForeignSetClipboard(urls)

NextDelete ==
    \/ \E p \in DOMAIN fs : Navigate(p)
    \/ \E paths \in Selections(fs, cwd) \cup {<<>>} : DeleteAsk(paths)
    \/ \E yes \in BOOLEAN : DeleteReply(yes)
    \/ \E p \in DOMAIN fs : ExternalDelete(p)

NextEdit ==
    \/ \E p \in DOMAIN fs : Navigate(p)
    \/ \E paths \in Selections(fs, cwd) \cup {<<>>} : action_rename(paths)
    \/ \E new_folder_name \in TypedNames, ok \in BOOLEAN :
           action_new_folder(new_folder_name, ok)
    \/ \E p \in DOMAIN fs : ExternalDelete(p)

Spec == Init /\ [][Next]_vars

SpecDelete == Init /\ [][NextDelete]_vars

SpecEdit == Init /\ [][NextEdit]_vars

TypeOK ==
    /\ Root \in DOMAIN fs
    /\ \A p \in DOMAIN fs : p # Root => isdir(fs, dirname(p))
    /\ is_cut_operation \in BOOLEAN
    /\ clip_owner \in {"none", "self", "foreign"}

----------------------------------------------------------------------------
(* Properties *)

Items == {last.items[k] : k \in 1..Len(last.items)}

\* what the source of an item held when the item was reached
Had(it) == ValueOf(it.before, it.src)

\* the plain destination name of an item was in use when it was reached
Collide(it) == exists(it.before, join(last.dest, basename(it.src)))

\* the filesystem right after item k of the last operation
After(k) == IF k < Len(last.items) THEN last.items[k + 1].before ELSE fs

\* the step is a paste
PasteStep == last'.op = "paste" /\ steps' = steps + 1

\* the copy or move of src_path alone into the directory of the last paste,
\* with the mode that paste started with, would succeed now
WouldSucceed(src_path) ==
    Transfer(fs, IsMove(last.cut, last.cutset, src_path), src_path,
             resolve(fs, last.dest, basename(src_path))).ok

\* C1: a paste is best-effort over its batch: the failure of the copy or
\* move of source i does not keep a later source from being attempted, so
\* no source that would succeed on its own is left out when the paste returns.
C1_PasteAttemptsAll ==
    last.op = "paste" =>
        \A j \in 1..Len(last.urls) :
            j > Len(last.items) => ~WouldSucceed(last.urls[j])

\* a source handled in Copy mode keeps everything it held before the paste
CopyKeeps(it) ==
    (~it.move /\ exists(fs, it.src)) =>
        \A q \in DOMAIN fs : IsPrefix(it.src, q) => ValueOf(fs', q) = fs[q]

\* a source moved successfully is gone and what it held is at the destination
CutRemoves(it) ==
    (it.move /\ it.ok) =>
        /\ ~exists(fs', it.src)
        /\ \A q \in DOMAIN fs : IsPrefix(it.src, q) =>
               ValueOf(fs', it.dest \o SubSeq(q, Len(it.src) + 1, Len(q))) = fs[q]

\* C2: after a paste, every source it handled in Copy mode still exists with
\* unchanged content, and every source it moved successfully no longer
\* exists while its content exists at the destination chosen for it.
C2_CopyKeepsCutRemoves ==
    [][PasteStep =>
         \A k \in 1..Len(last'.items) :
             CopyKeeps(last'.items[k]) /\ CutRemoves(last'.items[k])]_vars

\* item j of the last operation touches the path p: its source or its
\* destination is p, or an ancestor or a descendant of p
Touches(j, p) ==
    LET it == last.items[j]
    IN  \/ IsPrefix(it.dest, p) \/ IsPrefix(p, it.dest)
        \/ (it.move /\ (IsPrefix(it.src, p) \/ IsPrefix(p, it.src)))

\* C2 (amended): the two halves hold of each source at the moment it has
\* been handled: right after a source is handled in Copy mode it still
\* exists with unchanged content, and right after a source is moved
\* successfully its path does not exist and its content is at the resolved
\* destination.  When the paste returns the same holds of every source that
\* no later item of the batch touches: a later item may be given the name a
\* moved source freed, or move what an earlier item copied.
C2_SettledWhenHandled ==
    last.op = "paste" =>
        \A k \in 1..Len(last.items) :
            LET it == last.items[k]
                f == it.before
                Under == {q \in DOMAIN f : IsPrefix(it.src, q)}
                Kept(g) == \A q \in Under : ValueOf(g, q) = f[q]
                Moved(g) ==
                    /\ ~exists(g, it.src)
                    /\ \A q \in Under :
                           ValueOf(g, it.dest \o SubSeq(q, Len(it.src) + 1,
                                                        Len(q))) = f[q]
                Later == \E j \in (k + 1)..Len(last.items) :
                             Touches(j, it.src) \/ Touches(j, it.dest)
            IN  /\ (~it.move /\ exists(f, it.src)) =>
                       (Kept(After(k)) /\ (Later \/ Kept(fs)))
                /\ (it.move /\ it.ok) =>
                       (Moved(After(k)) /\ (Later \/ Moved(fs)))

\* a paste of this process's own cut moved a source and gave the freed name
\* to a later source of the batch: the first source's path exists again
C2_Witness ==
    /\ last.op = "paste"
    /\ last.owner = "self"
    /\ Len(last.items) = 2
    /\ last.items[1].move /\ last.items[1].ok
    /\ last.items[2].move /\ last.items[2].ok
    /\ last.items[2].dest = last.items[1].src
    /\ exists(fs, last.items[1].src)

\* r is the plain name in dir if that is free, else the first free
\* "_copy{n}" name
FirstFree(f, dir, name, r) ==
    LET parts == splitext(name)
        nth(n) == join(dir, copyname(parts[1], parts[2], n))
    IN  IF ~exists(f, join(dir, name)) THEN r = join(dir, name)
        ELSE \E n \in 1..Cardinality(DOMAIN f) :
                /\ r = nth(n)
                /\ \A k \in 1..(n - 1) : exists(f, nth(k))

\* C3: the destination chosen for a pasted source does not exist when it is
\* chosen (paths created earlier in the batch included) and is the first
\* free name; handling the source changes no entry that was present, other
\* than a moved source itself.
C3_NonDestructive ==
    last.op = "paste" =>
        \A k \in 1..Len(last.items) :
            LET it == last.items[k]
                f == it.before
            IN  /\ ~exists(f, it.dest)
                /\ FirstFree(f, last.dest, basename(it.src), it.dest)
                /\ \A q \in DOMAIN f :
                       ~(it.move /\ IsPrefix(it.src, q)) =>
                           ValueOf(After(k), q) = f[q]

\* two sources of one batch wanted the same name: the second was given a
\* name the first had not taken
C3_Witness ==
    /\ last.op = "paste"
    /\ Len(last.items) = 2
    /\ last.items[1].ok /\ last.items[2].ok
    /\ basename(last.items[1].src) = basename(last.items[2].src)
    /\ exists(last.items[2].before, last.items[1].dest)
    /\ last.items[2].dest # last.items[1].dest
    /\ Collide(last.items[1])

\* C4: when a paste that started with a pending cut returns, the pending-cut
\* state is cleared, also when an item of the batch failed.
C4_CutStateCleared ==
    (last.op = "paste" /\ last.cut) =>
        (~is_cut_operation /\ cut_paths = <<>>)

\* C6: a paste of URLs another application put on the clipboard moves no
\* source: every source that existed still exists afterwards, whatever the
\* pending cut state.
C6_ForeignIsCopy ==
    (last.op = "paste" /\ last.owner = "foreign") =>
        \A it \in Items :
            /\ ~it.move
            /\ Had(it) # "none" => exists(fs, it.src)

\* the "_copy{n}" names of a whole-name stem, and of a stem cut at the last dot
WholeStemNames(name) == {name \o <<CopyTok(n)>> : n \in 1..(Cardinality(DOMAIN fs) + 1)}

LastDotNames(name) ==
    LET dot == rfindDot(name, Len(name))
    IN  {SubSeq(name, 1, dot - 1) \o <<CopyTok(n)>> \o SubSeq(name, dot, Len(name)) :
            n \in 1..(Cardinality(DOMAIN fs) + 1)}

\* C8: on a collision a pasted directory gets the suffix at the end of its
\* whole name, a pasted file gets it before its last "." extension.
C8_SplitFilesOnly ==
    last.op = "paste" =>
        \A it \in Items :
            (Collide(it) /\ Had(it) # "none") =>
                IF Had(it) = "dir"
                THEN it.dest \in {join(last.dest, n) : n \in WholeStemNames(basename(it.src))}
                ELSE it.dest \in {join(last.dest, n) : n \in LastDotNames(basename(it.src))}

C7_SelfCopySuffix ==
    last.op = "paste" =>
        \A k \in 1..Len(last.items) :
            LET it == last.items[k]
                copy1 == join(last.dest, NameACopyB)
            IN  (/\ ~it.move
                 /\ it.src = join(last.dest, NameAB)
                 /\ Had(it) \notin {"dir", "none"}
                 /\ ~exists(it.before, copy1))
                => /\ it.ok
                   /\ it.dest = copy1
                   /\ ValueOf(fs, copy1) = Had(it)
                   /\ ValueOf(fs, it.src) = Had(it)

\* a.b was pasted into its own directory and a_copy1.b was created
C7_Witness ==
    /\ last.op = "paste"
    /\ \E it \in Items :
           /\ ~it.move /\ it.ok
           /\ it.src = join(last.dest, NameAB)
           /\ ~exists(it.before, join(last.dest, NameACopyB))
           /\ exists(fs, join(last.dest, NameACopyB))

\* C9: marks never merge: a paste of a clipboard this process set works on
\* the paths of the most recent mark and handles every item in that mark's
\* mode; after a cut followed by a copy nothing is moved.
C9_MarksNeverMerge ==
    (last.op = "paste" /\ last.owner = "self") =>
        /\ last.urls = mark.paths
        /\ Len(last.items) <= Len(mark.paths)
        /\ \A k \in 1..Len(last.items) :
               /\ last.items[k].src = mark.paths[k]
               /\ last.items[k].move = mark.cut

\* after a cut and then a copy, a path of both marks was pasted as a copy
C9_Witness ==
    /\ last.op = "paste"
    /\ last.owner = "self"
    /\ ~mark.cut
    /\ \E it \in Items : it.ok /\ ~it.move /\ InSeq(it.src, cut_paths)
                         /\ exists(fs, it.src)

\* C10: a confirmed delete is best-effort over its list: the failure to
\* delete path i does not keep a later path from being attempted, so no
\* deletable path of the list is left when the call returns.
C10_DeleteAttemptsAll ==
    last.op = "delete" =>
        \A j \in 1..Len(last.urls) :
            j > Len(last.items) => ~exists(fs, last.urls[j])

----------------------------------------------------------------------------
(* Rename and new folder *)

\* the step is one of the given operation
StepOf(op) == last'.op = op /\ steps' = steps + 1

\* C11: a rename accepted with an empty name or with the current name is
\* reported as a failure (the error dialog is shown) and leaves the
\* filesystem unchanged.
C11_RenameRejectsNoOp ==
    [][(/\ StepOf("rename")
        /\ last'.asked /\ last'.accepted
        /\ (last'.text = <<>> \/ last'.text = basename(last'.urls[1])))
       => (last'.err /\ fs' = fs)]_vars

\* C12: creating a directory under a name that exists in the directory shown
\* is reported as a failure and changes nothing: no entry is created under
\* any name, and every entry stays as it was.
C12_NewFolderReportsCollision ==
    [][(/\ StepOf("new_folder")
        /\ last'.accepted /\ last'.text # <<>>
        /\ exists(fs, join(cwd, last'.text)))
       => (last'.err /\ fs' = fs)]_vars

\* a new folder was asked for under the name of an existing entry and the
\* failure was reported
C12_Witness ==
    /\ last.op = "new_folder"
    /\ last.accepted
    /\ Len(last.items) = 1
    /\ last.items[1].dest = join(last.dest, last.text)
    /\ exists(last.items[1].before, last.items[1].dest)
    /\ last.err
    /\ fs = last.items[1].before

----------------------------------------------------------------------------
(* Paste: destination, probing, frame *)

\* C13: a paste whose destination directory does not exist or is not a
\* directory fails as a whole (the failure is reported) and no filesystem
\* entry is created, removed or changed.
C13_BadDestinationFailsWhole ==
    [][(PasteStep /\ clipboard # <<>> /\ ~isdir(fs, cwd))
       => (last'.err /\ fs' = fs)]_vars

\* the n-th name the loop probes for an item
Probed(it, n) ==
    LET parts == splitext(basename(it.src))
    IN  join(last.dest, copyname(parts[1], parts[2], n))

\* C14: the probing loop ends: for a source whose plain name is in use, the
\* name returned is "_copy{n}" for the smallest n that is free, and n is at
\* most the number of entries of the destination directory, so the loop tests
\* at most one more name than the directory has entries.
C14_ProbingTerminates ==
    last.op = "paste" =>
        \A k \in 1..Len(last.items) :
            LET it == last.items[k]
                f == it.before
            IN  Collide(it) =>
                    \E n \in 1..Cardinality(Children(f, last.dest)) :
                        /\ it.dest = Probed(it, n)
                        /\ ~exists(f, Probed(it, n))
                        /\ \A j \in 1..(n - 1) : exists(f, Probed(it, j))

\* the loop ran as long as it can: every entry of the destination directory
\* was probed, at least two of them, before a free name was found
C14_Witness ==
    /\ last.op = "paste"
    /\ \E k \in 1..Len(last.items) :
           LET it == last.items[k]
               n == Cardinality(Children(it.before, last.dest))
           IN  /\ Collide(it)
               /\ n >= 2
               /\ it.dest = Probed(it, n)
               /\ it.ok

\* the i-th name of the series of a name: the name itself, then its
\* "_copy{i}" names
SeriesName(name, i) ==
    LET parts == splitext(name)
    IN  IF i = 0 THEN name ELSE copyname(parts[1], parts[2], i)

\* the first k paths of the series of a name in a directory
Series(dir, name, k) == {join(dir, SeriesName(name, i)) : i \in 0..(k - 1)}

\* C15: a paste started with no pending cut leaves the clipboard URLs,
\* is_cut_operation and cut_paths unchanged; and when the clipboard holds
\* one file and the destination directory holds exactly the first k names of
\* its series (k = 0: the directory is empty), the paste adds the next name
\* of the series with the content of the file and nothing else.  So k
\* successive pastes into an empty directory produce name.ext,
\* name_copy1.ext, ..., name_copy{k-1}.ext in that order.
C15_CopyIsStateless ==
    [][(PasteStep /\ ~is_cut_operation) =>
         /\ UNCHANGED <<clipboard, is_cut_operation, cut_paths>>
         /\ \A k \in 0..Cardinality(DOMAIN fs) :
              (/\ Len(clipboard) = 1
               /\ exists(fs, clipboard[1]) /\ ~isdir(fs, clipboard[1])
               /\ isdir(fs, cwd)
               /\ Children(fs, cwd) = Series(cwd, basename(clipboard[1]), k))
              => LET new == join(cwd, SeriesName(basename(clipboard[1]), k))
                 IN  fs' = [q \in DOMAIN fs \cup {new} |->
                              IF q = new THEN fs[clipboard[1]] ELSE fs[q]]
       ]_vars

\* the same copied file was pasted twice in a row into the directory that
\* held the first two names of its series: the directory holds the first
\* four, and the clipboard still holds the file
C15_Witness ==
    /\ last.op = "paste"
    /\ ~last.cut /\ ~last.err
    /\ last.owner = "self"
    /\ Len(last.urls) = 1
    /\ clipboard = last.urls
    /\ ~is_cut_operation
    /\ Children(fs, last.dest) = Series(last.dest, basename(last.urls[1]), 4)

----------------------------------------------------------------------------
(* Delete: confirmation *)

\* C16: action_delete removes a path only after the confirmation dialog was
\* answered Yes, and then only the selected paths and what is below them; an
\* empty selection or any other answer leaves the filesystem, the clipboard
\* and the cut state unchanged.
C16_NoDeleteWithoutYes ==
    [][/\ (StepOf("delete_ask") \/ StepOf("delete_no")) =>
              UNCHANGED <<fs, clipboard, is_cut_operation, cut_paths>>
       /\ (fs' # fs /\ last'.op # "external") =>
              /\ StepOf("delete")
              /\ pending_delete # <<>>
              /\ last'.urls = pending_delete
              /\ \A q \in DOMAIN fs \ DOMAIN fs' :
                     \E k \in 1..Len(pending_delete) :
                         IsPrefix(pending_delete[k], q)
              /\ \A q \in DOMAIN fs' : exists(fs, q) /\ fs'[q] = fs[q]
      ]_vars

\* the dialog was answered No for a selection of existing entries, which are
\* all still there
C16_Witness ==
    /\ last.op = "delete_no"
    /\ last.urls # <<>>
    /\ \A k \in 1..Len(last.urls) : exists(fs, last.urls[k])

----------------------------------------------------------------------------
(* Cut state and marks *)

\* C17: when a paste that started with the cut flag set finishes its loop
\* without an exception, is_cut_operation is false, cut_paths is empty and
\* the clipboard holds no URLs, also when every item was copied.
C17_CleanPasteResets ==
    (last.op = "paste" /\ last.urls # <<>> /\ last.cut /\ ~last.err) =>
        (~is_cut_operation /\ cut_paths = <<>> /\ clipboard = <<>>)

\* a paste under a pending cut copied every source (none was a cut path) and
\* reset the cut state and the clipboard
C17_Witness ==
    /\ last.op = "paste"
    /\ last.cut /\ ~last.err
    /\ last.items # <<>>
    /\ \A k \in 1..Len(last.items) :
           ~last.items[k].move /\ ~InSeq(last.items[k].src, last.cutset)
    /\ ~is_cut_operation /\ cut_paths = <<>> /\ clipboard = <<>>

\* C18: action_copy and action_cut with no row selected leave
\* is_cut_operation, cut_paths and the clipboard as they were.
C18_EmptyMarkIsNoOp ==
    [][((StepOf("copy") \/ StepOf("cut")) /\ last'.urls = <<>>) =>
          UNCHANGED <<is_cut_operation, cut_paths, clipboard>>]_vars

\* action_copy ran with no row selected while a cut was pending, and the
\* cut is still in force
C18_Witness ==
    /\ last.op = "copy"
    /\ last.urls = <<>>
    /\ is_cut_operation
    /\ cut_paths # <<>>
    /\ clipboard = cut_paths

====
